---- MODULE Spec2Model ----
(***************************************************************************)
(* Event-driven notification dispatch core of the e-commerce analytics     *)
(* platform: broker topology, per-queue consumers, rule-driven fan-out to  *)
(* channel adapters, bounded Redis lists and revenue milestone detection.  *)
(*                                                                         *)
(* Granularity: JavaScript runs one callback at a time, so the code        *)
(* between two awaits is atomic.  Every action below completes the one     *)
(* awaited operation a handler is suspended on (its effect on Redis, the   *)
(* mail transport or the broker, or its failure) and runs the handler to   *)
(* its next await.  The field pc of a delivery names the operation the     *)
(* handler is suspended on.                                                *)
(***************************************************************************)
EXTENDS Integers, Sequences, FiniteSets, TLC

(***************************************************************************)
(* Bounds of the model                                                     *)
(***************************************************************************)
\* events the producers publish in one behaviour of the fan-out pipeline
MaxMsgs == 1
\* analytics events published in one behaviour of milestone detection
MaxEvals == 2
\* events published in one behaviour that fills the prefetch windows
MaxBurst == 6
\* failures the collaborators raise in one behaviour
MaxFaults == 1
\* advances of the clock in one behaviour
MaxTicks == 2
\* alert events published in one behaviour of concurrent alert handling
MaxAlerts == 2
\* registration requests received in a behaviour
MaxRegs == 3

(***************************************************************************)
(* Program constants                                                       *)
(***************************************************************************)
PREFETCH == 5
PushTrimStop == 99
DashTrimStop == 49
UserTrimStop == 99
DashTTL == 86400
NotificationTTL == 604800
MarkerTTL == 86400

\* mutant of milestones: the ladder is walked from the top
milestonesDescending == <<100000, 50000, 25000, 10000, 5000, 1000>>

milestones == <<1000, 5000, 10000, 25000, 50000, 100000>>

(***************************************************************************)
(* Routing keys are dot-delimited strings; they are kept as the sequence   *)
(* of their words so that topic patterns can be matched word by word.      *)
(***************************************************************************)
K_created   == <<"orders", "created">>
K_cancelled == <<"orders", "cancelled">>
K_updated   == <<"orders", "updated">>
K_revenue   == <<"analytics", "updated", "revenue">>
K_aorders   == <<"analytics", "updated", "orders">>
K_ausers    == <<"analytics", "updated", "users">>
K_amile     == <<"analytics", "milestone", "reached">>
K_lowstock  == <<"inventory", "low_stock">>
K_sysalert  == <<"system", "alert", "cpu">>
K_achieved  == <<"revenue", "milestone", "achieved">>
K_empty     == <<>>

Q_orders    == "notifications.orders"
Q_analytics == "notifications.analytics"
Q_alerts    == "notifications.alerts"
Q_failed    == "notifications.failed"
Q_gateway   == "gateway.analytics.updates"
X_orders    == "orders.events"
X_analytics == "analytics.events"
X_notif     == "notifications.events"
X_dlx       == "notifications.dlx"

ConsumerQueues == {Q_orders, Q_analytics, Q_alerts}
QueueNames     == ConsumerQueues \cup {Q_failed, Q_gateway}

\* setupQueues: exchange kinds
exchangeKind ==
  [x \in {X_orders, X_analytics, X_notif, X_dlx} |->
     IF x = X_dlx THEN "direct" ELSE "topic"]

\* mutant of bindings: the API gateway declares no queue of its own
bindingsWithoutGateway ==
  { <<X_orders,    K_created,                        Q_orders>>,
    <<X_orders,    K_cancelled,                      Q_orders>>,
    <<X_orders,    K_updated,                        Q_orders>>,
    <<X_analytics, <<"analytics", "updated", "*">>,   Q_analytics>>,
    <<X_analytics, <<"analytics", "milestone", "*">>, Q_analytics>>,
    <<X_notif,     K_lowstock,                       Q_alerts>>,
    <<X_notif,     <<"system", "alert", "*">>,        Q_alerts>>,
    <<X_dlx,       K_empty,                          Q_failed>> }

\* setupQueues: every bindQueue call, as (exchange, binding key, queue), and
\* the API gateway's bindQueue in listenToAnalyticsEvents
bindings ==
  { <<X_analytics, <<"analytics", "updated", "*">>,   Q_gateway>>, <<X_orders,    K_created,                        Q_orders>>,
    <<X_orders,    K_cancelled,                      Q_orders>>,
    <<X_orders,    K_updated,                        Q_orders>>,
    <<X_analytics, <<"analytics", "updated", "*">>,   Q_analytics>>,
    <<X_analytics, <<"analytics", "milestone", "*">>, Q_analytics>>,
    <<X_notif,     K_lowstock,                       Q_alerts>>,
    <<X_notif,     <<"system", "alert", "*">>,        Q_alerts>>,
    <<X_dlx,       K_empty,                          Q_failed>> }

\* setupQueues: the queue arguments x-dead-letter-exchange and x-message-ttl.
\* No x-dead-letter-routing-key is declared for any queue.
deadLetterExchange == [q \in ConsumerQueues |-> X_dlx]
hasMessageTTL(q) == q \in ConsumerQueues

\* topic exchange: binding pattern against routing key, "*" is exactly one word
TopicMatch(pattern, key) ==
  /\ Len(pattern) = Len(key)
  /\ \A i \in 1..Len(pattern) : pattern[i] = "*" \/ pattern[i] = key[i]

\* direct exchange: the routing key equals the binding key
DirectMatch(bkey, key) == bkey = key

\* the queues an exchange routes a routing key to
Route(x, key) ==
  { b[3] : b \in { c \in bindings :
                     /\ c[1] = x
                     /\ IF exchangeKind[x] = "topic"
                          THEN TopicMatch(c[2], key)
                          ELSE DirectMatch(c[2], key) } }

\* routingKey.includes(word), for the keys of this model (whole words)
Includes(key, word) == \E i \in 1..Len(key) : key[i] = word

(***************************************************************************)
(* Rule table                                                              *)
(***************************************************************************)
NoRule == [type |-> "none", priority |-> "none", channels |-> <<>>]

notificationRules ==
  [k \in {K_created, K_cancelled, K_revenue, K_lowstock} |->
     CASE k = K_created   -> [type |-> "order_confirmation", priority |-> "high",
                              channels |-> <<"email", "push", "dashboard">>]
       [] k = K_cancelled -> [type |-> "order_cancelled", priority |-> "high",
                              channels |-> <<"email", "dashboard">>]
       [] k = K_revenue   -> [type |-> "revenue_milestone", priority |-> "medium",
                              channels |-> <<"dashboard", "slack">>]
       [] k = K_lowstock  -> [type |-> "stock_alert", priority |-> "high",
                              channels |-> <<"email", "dashboard", "slack">>]]

\* this.notificationRules[routingKey]
RuleFor(key) ==
  IF key \in DOMAIN notificationRules THEN notificationRules[key] ELSE NoRule


(***************************************************************************)
(* State                                                                   *)
(***************************************************************************)
VARIABLES
  queue,      \* broker: queue name -> ready messages, oldest first
  deliv,      \* message id -> the delivery of that message to its consumer
  lists,      \* Redis lists: key -> entries, newest first
  expiring,   \* Redis keys that carry an expiry
  stored,     \* Redis: ids n for which notification:<n> is set
  markers,    \* Redis: thresholds m for which milestone:revenue:daily:<m> is set
  mail,       \* subjects handed to the mail transport, in order
  pubsub,     \* messages published on dashboard_updates, in order
  published,  \* milestone events published by checkRevenueMilestones, in order
  discarded,  \* messages the broker dropped: no queue matched their routing key
  expired,    \* ids of messages whose TTL ran out in their queue
  nextId,     \* id of the next message published
  budget,     \* events the producers may still publish
  faults,     \* failures the collaborators (Redis, SMTP, broker) may still raise
  now,        \* Date.now(), in milliseconds
  rands,      \* the values Math.random() can return
  inputs,     \* the events the producers can publish
  untrimmed,  \* list keys pushed to since their last completed LTRIM
  userlog,    \* the ids pushed to the per-user lists, in the order of the LPUSHes
  gw,         \* API gateway: the messages its consumer callback was called with
  svc,        \* notification service: how far initialize() has come
  sampleUsers, \* auth router: the in-memory user list
  regs        \* auth router: the registration requests received, in order

vars == <<queue, deliv, lists, expiring, stored, markers, mail, pubsub,
          published, discarded, expired, nextId, budget, faults, now, rands, inputs,
          untrimmed, userlog, gw, svc, sampleUsers, regs>>

Users      == {"U1", "U2"}
Severities == {"critical", "warning"}
Revenues   == {0, 1500, 6000}

L_push  == "push_notifications"
L_dash  == "dashboard_notifications"
L_slack == "slack_notifications"
L_user(u) == "user:" \o u \o ":notifications"
ListKeys == {L_push, L_dash, L_slack} \cup { L_user(u) : u \in Users }

\* an entry left in a list by an earlier run of the service
OldEntry == [id |-> <<"old">>, text |-> "old", color |-> ""]
Filled(n) == [i \in 1..n |-> OldEntry]

\* the ids an earlier run left in a user's list, newest first: the i-th is the
\* i-th most recent, so the n-th is the oldest
AgedEntry(i) == [id |-> <<"old", i>>, text |-> "", color |-> ""]
Aged(n) == [i \in 1..n |-> AgedEntry(i)]

NoNotif == [id |-> <<>>, type |-> "none", priority |-> "none",
            channels |-> <<>>, userId |-> "none"]

\* message body: the JSON text of the event; decodable = JSON.parse accepts it
Body(dec, u, sev, rev, m) ==
  [decodable |-> dec, userId |-> u, severity |-> sev, dailyRevenue |-> rev,
   milestone |-> m]

Unsettled(d) == d.settled = "no"

\* deliveries a consumer holds unacknowledged
Unacked(q) == { t \in DOMAIN deliv : deliv[t].q = q /\ Unsettled(deliv[t]) }

\* outcomes of an awaited call on a collaborator: TRUE = resolved, FALSE = rejected
Outcomes(who) == IF faults > 0 THEN {TRUE, FALSE} ELSE {TRUE}
Spend(ok) == IF ok THEN faults ELSE faults - 1

(***************************************************************************)
(* Redis list commands                                                     *)
(***************************************************************************)
\* mutant of Lpush: RPUSH, the value goes to the tail of the list
RpushInstead(s, v) == Append(s, v)

\* LPUSH key value
Lpush(s, v) == <<v>> \o s

\* mutant of Ltrim: the trim drops the one entry the push before it added
LtrimDropsOne(s, stop) == SubSeq(s, 1, Len(s) - 1)

\* mutant of Ltrim: the stop index is taken for the number of entries to drop
\* from, so one entry too many is kept
LtrimKeepsOneMore(s, stop) ==
  SubSeq(s, 1, IF Len(s) < stop + 2 THEN Len(s) ELSE stop + 2)

\* LTRIM key 0 stop
Ltrim(s, stop) == SubSeq(s, 1, IF Len(s) < stop + 1 THEN Len(s) ELSE stop + 1)

(***************************************************************************)
(* Broker                                                                  *)
(***************************************************************************)
\* queue contents after exchange x routes message m
Routed(qs, x, m) ==
  [q \in QueueNames |-> IF q \in Route(x, m.rk) THEN Append(qs[q], m) ELSE qs[q]]

\* channel.publish(x, key, body) by a producer or by the service itself
PublishTo(x, key, body) ==
  LET m == [id |-> nextId, rk |-> key, body |-> body] IN
  /\ queue' = Routed(queue, x, m)
  /\ discarded' = IF Route(x, key) = {} THEN discarded \cup {m.id} ELSE discarded
  /\ nextId' = nextId + 1

\* the broker dead-letters m from queue q: it republishes m to q's dead-letter
\* exchange under m's own routing key (no x-dead-letter-routing-key is declared)
DeadLetter(qs, q, m) == Routed(qs, deadLetterExchange[q], m)

DeadLetterLost(q, m) == Route(deadLetterExchange[q], m.rk) = {}


(***************************************************************************)
(* Message formatting helpers                                              *)
(***************************************************************************)
getPushTitle(n) ==
  CASE n.type = "order_confirmation" -> "Order Confirmed!"
    [] n.type = "order_cancelled"    -> "Order Cancelled"
    [] n.type = "stock_alert"        -> "Stock Alert"
    [] OTHER                         -> "Notification"

getDashboardMessage(n) ==
  CASE n.type = "order_confirmation" -> "New order received"
    [] n.type = "order_cancelled"    -> "Order cancelled"
    [] n.type = "revenue_milestone"  -> "Revenue milestone reached"
    [] n.type = "stock_alert"        -> "Low stock alert"
    [] OTHER                         -> "System notification"

getSlackColor(priority) ==
  CASE priority = "high"   -> "danger"
    [] priority = "medium" -> "warning"
    [] priority = "low"    -> "good"
    [] OTHER               -> "good"

\* sendEmailNotification's switch: the subject, and whether building the html
\* throws (generateOrderCancelledEmail and generateStockAlertEmail are called
\* but defined nowhere in the class)
emailSubject(n) ==
  CASE n.type = "order_confirmation" -> "Order Confirmation"
    [] n.type = "order_cancelled"    -> "Order Cancelled"
    [] n.type = "stock_alert"        -> "Low Stock Alert"
    [] OTHER                         -> "Notification from E-commerce Platform"

emailTemplateThrows(n) == n.type \in {"order_cancelled", "stock_alert"}

(***************************************************************************)
(* Handler control flow                                                    *)
(***************************************************************************)
\* an error leaves the handler (or JSON.parse) and reaches the consumer's catch
Throw(d, e) == [d EXCEPT !.pc = "thrown", !.err = e]

\* a side effect of an adapter took place
\* a Redis call of sendDashboardNotification resolved for the delivery
Resolved(d, op) == [d EXCEPT !.dash = Append(@, op)]

Did(d, e) == [d EXCEPT !.done = Append(@, e)]

\* the trim of list k failed after this handler's push
Skipped(d, k) == [d EXCEPT !.skipped = Append(@, k)]

\* the awaited operation an adapter suspends on first
FirstPc(ch) ==
  CASE ch = "email"     -> "email_send"
    [] ch = "push"      -> "push_lpush"
    [] ch = "dashboard" -> "dash_lpush"
    [] ch = "slack"     -> "slack_lpush"

\* the handler calls the adapter of channel ch
EnterAdapter(d, ch) == [d EXCEPT !.pc = FirstPc(ch), !.calls = Append(@, ch)]

\* handleOrderNotification: the for loop over rule.channels, then storeNotification
OrderContinue(d) ==
  IF d.ci < Len(d.notif.channels)
    THEN EnterAdapter([d EXCEPT !.ci = @ + 1], d.notif.channels[d.ci + 1])
    ELSE [d EXCEPT !.pc = "store_setex", !.calls = Append(@, "store")]

\* mutant of AlertContinue: the email adapter is called whatever the severity
AlertAlwaysEmails(d) ==
  CASE d.ci = 1 -> EnterAdapter([d EXCEPT !.ci = 2], "slack")
    [] d.ci = 2 -> EnterAdapter([d EXCEPT !.ci = 3], "email")
    [] OTHER    -> [d EXCEPT !.pc = "ret"]

\* handleAlertNotification: dashboard, slack, then email if severity is critical
AlertContinue(d) ==
  CASE d.ci = 1 -> EnterAdapter([d EXCEPT !.ci = 2], "slack")
    [] d.ci = 2 -> IF d.msg.body.severity = "critical"
                     THEN EnterAdapter([d EXCEPT !.ci = 3], "email")
                     ELSE [d EXCEPT !.pc = "ret"]
    [] OTHER    -> [d EXCEPT !.pc = "ret"]

\* an adapter returned: the handler that called it goes on
AdapterReturns(d) ==
  IF d.q = Q_orders THEN OrderContinue(d) ELSE AlertContinue(d)

\* mutant of AdapterCatch: the adapter has no try/catch, its error reaches the
\* handler and leaves it
AdapterRethrows(d) ==
  Throw([d EXCEPT !.raised = Append(@, d.calls[Len(d.calls)])], "handler")

\* the adapter's catch block: console.error, then the adapter returns normally
AdapterCatch(d) ==
  AdapterReturns([d EXCEPT !.raised = Append(@, d.calls[Len(d.calls)])])

\* mutant of StoreCatch: storeNotification has no try/catch, the failed write
\* leaves it and the handler
StoreRethrows(d) == Throw([d EXCEPT !.raised = Append(@, "store")], "handler")

\* storeNotification's catch block: console.error, then it returns normally
StoreCatch(d) == [d EXCEPT !.raised = Append(@, "store"), !.pc = "ret"]

\* checkRevenueMilestones: the for loop over the ladder; after it,
\* handleAnalyticsNotification tests routingKey.includes('orders') and calls
\* checkOrderMilestones, which is defined nowhere: a TypeError
AfterRevenue(d) ==
  IF Includes(d.msg.rk, "orders") THEN Throw(d, "handler")
                                  ELSE [d EXCEPT !.pc = "ret"]

\* checkRevenueMilestones: channel.publish throws; nothing catches it before
\* the consumer callback
PublishThrows(d) == Throw([d EXCEPT !.raised = Append(@, "publish")], "handler")

\* checkRevenueMilestones has no try block: a rejected redis.get or
\* redis.setex leaves it and handleAnalyticsNotification
MarkerThrows(d) == Throw([d EXCEPT !.raised = Append(@, "marker")], "handler")

MilestoneContinue(d) ==
  IF d.mi < Len(milestones)
    THEN [d EXCEPT !.mi = @ + 1, !.pc = "ms_get"]
    ELSE AfterRevenue(d)


(***************************************************************************)
(* Handlers: the synchronous run from the call to the first await          *)
(***************************************************************************)
NewDelivery(q, m) ==
  [q |-> q, msg |-> m, at |-> now, pc |-> "start", ci |-> 0, mi |-> 0,
   rev |-> 0, notif |-> NoNotif,
   \* the side effects performed for this message, over all its deliveries
   done |-> IF m.id \in DOMAIN deliv THEN deliv[m.id].done ELSE <<>>,
   \* the lists this handler pushed to and whose trim then failed
   skipped |-> <<>>,
   \* the ack and nack frames sent to the broker for this delivery
   settles |-> <<>>,
   \* the Redis calls of sendDashboardNotification that resolved, in order
   dash |-> <<>>,
   \* the awaited call an earlier delivery of this message was suspended on
   \* when the process stopped
   lostAt |-> IF m.id \in DOMAIN deliv THEN deliv[m.id].lostAt ELSE "none",
   \* ... and the threshold that delivery was at
   lostMi |-> IF m.id \in DOMAIN deliv THEN deliv[m.id].lostMi ELSE 0,
   calls |-> <<>>, raised |-> <<>>, err |-> "none",
   settled |-> "no"]

handleOrderNotification(d, rnd) ==
  LET rule == RuleFor(d.msg.rk) IN
  IF rule = NoRule
    THEN [d EXCEPT !.pc = "ret"]
    ELSE OrderContinue([d EXCEPT !.notif =
           [id |-> <<"notif", now, rnd>>, type |-> rule.type,
            priority |-> rule.priority, channels |-> rule.channels,
            userId |-> d.msg.body.userId]])

handleAnalyticsNotification(d) ==
  IF Includes(d.msg.rk, "revenue")
    THEN [d EXCEPT !.rev = d.msg.body.dailyRevenue, !.mi = 1, !.pc = "ms_get"]
    ELSE AfterRevenue(d)

handleAlertNotification(d) ==
  EnterAdapter([d EXCEPT !.ci = 1, !.notif =
      [id |-> <<"alert", now>>, type |-> "system_alert", priority |-> "high",
       channels |-> <<"dashboard", "email", "slack">>,
       userId |-> d.msg.body.userId]], "dashboard")

\* mutant of ConsumerCallback: JSON.parse sits outside the try block and its
\* failure is swallowed, so the handler runs on the undecoded message
ConsumerCallbackSkipsDecode(q, m, rnd) ==
  LET d == NewDelivery(q, m) IN
  CASE q = Q_orders    -> handleOrderNotification(d, rnd)
    [] q = Q_analytics -> handleAnalyticsNotification(d)
    [] q = Q_alerts    -> handleAlertNotification(d)

\* the consumer callback up to its first await: JSON.parse, then the handler
ConsumerCallback(q, m, rnd) ==
  LET d == NewDelivery(q, m) IN
  IF ~m.body.decodable THEN Throw(d, "decode")
  ELSE CASE q = Q_orders    -> handleOrderNotification(d, rnd)
         [] q = Q_analytics -> handleAnalyticsNotification(d)
         [] q = Q_alerts    -> handleAlertNotification(d)

(***************************************************************************)
(* initialize(): the awaited broker calls of connectRabbitMQ, setupQueues  *)
(* and startConsumers, in program order                                    *)
(***************************************************************************)
Call(op, arg) == [op |-> op, arg |-> arg]

connectCalls ==
  <<Call("connect", "amqp"), Call("createChannel", "amqp"), Call("prefetch", "amqp")>>

\* assertQueue of q, then one bindQueue per routing key of q
QueueCalls(q, nkeys) ==
  <<Call("assertQueue", q)>> \o [i \in 1..nkeys |-> Call("bindQueue", q)]

setupCalls ==
  <<Call("assertExchange", X_orders), Call("assertExchange", X_analytics),
    Call("assertExchange", X_notif)>>
  \o QueueCalls(Q_orders, 3) \o QueueCalls(Q_analytics, 2) \o QueueCalls(Q_alerts, 2)
  \o <<Call("assertExchange", X_dlx), Call("assertQueue", Q_failed),
       Call("bindQueue", Q_failed)>>

consumeCalls ==
  <<Call("consume", Q_orders), Call("consume", Q_analytics), Call("consume", Q_alerts)>>

\* mutant of initializeCalls: startConsumers is awaited before setupQueues
initializeConsumesFirst == connectCalls \o consumeCalls \o setupCalls

initializeCalls == connectCalls \o setupCalls \o consumeCalls

\* svc.at is the index of the call initialize() is suspended on
Starting == [at |-> 1, state |-> "starting"]
Running  == [at |-> Len(initializeCalls) + 1, state |-> "running"]

\* the calls of initialize() that have completed
CompletedCalls == { initializeCalls[i] : i \in 1..(svc.at - 1) }

\* channel.consume(q, ...) has completed and the process is alive
Consuming(q) == svc.state # "exited" /\ Call("consume", q) \in CompletedCalls

\* basic.qos(5) without the global flag: the window applies to each consumer
PrefetchOpen(q) == Cardinality(Unacked(q)) < PREFETCH

\* the broker delivers the head of queue q to the consumer of q
Deliver(q) ==
  /\ Consuming(q)
  /\ queue[q] # <<>>
  /\ PrefetchOpen(q)
  /\ LET m == Head(queue[q]) IN
     \E rnd \in (IF q = Q_orders /\ m.body.decodable /\ RuleFor(m.rk) # NoRule
                   THEN rands ELSE {1}) :
       /\ queue' = [queue EXCEPT ![q] = Tail(@)]
       /\ deliv' = (m.id :> ConsumerCallback(q, m, rnd)) @@ deliv
  /\ UNCHANGED <<lists, expiring, stored, markers, mail, pubsub, published,
                 discarded, expired, nextId, budget, faults, now, rands, inputs, untrimmed,
                 userlog, gw, svc,
                 sampleUsers, regs>>

\* the broker delivers to the consumer of q only when the consumer holds no
\* unsettled message: the evaluations of such a behaviour do not overlap
DeliverSequential(q) == Unacked(q) = {} /\ Deliver(q)

\* mutant of Ack: the handler is not awaited, the message is acknowledged
\* while the handler is still running
AckWithoutAwait(t) ==
  /\ deliv[t].pc # "thrown"
  /\ Unsettled(deliv[t])
  /\ deliv' = [deliv EXCEPT ![t].settled = "acked",
                             ![t].settles = Append(@, "ack")]
  /\ UNCHANGED <<queue, lists, expiring, stored, markers, mail, pubsub,
                 published, discarded, expired, nextId, budget, faults, now,
                 rands, inputs, untrimmed,
                 userlog, gw, svc,
                 sampleUsers, regs>>

\* this.channel.ack(msg), after the awaited handler returned
Ack(t) ==
  /\ deliv[t].pc = "ret"
  /\ Unsettled(deliv[t])
  /\ deliv' = [deliv EXCEPT ![t].settled = "acked",
                             ![t].settles = Append(@, "ack")]
  /\ UNCHANGED <<queue, lists, expiring, stored, markers, mail, pubsub,
                 published, discarded, expired, nextId, budget, faults, now, rands, inputs, untrimmed,
                 userlog, gw, svc,
                 sampleUsers, regs>>

\* mutant of AckThrows: the ack frame is sent and channel.ack then throws
AckThrowsAfterSending(t) ==
  /\ deliv[t].pc = "ret"
  /\ Unsettled(deliv[t])
  /\ faults > 0
  /\ faults' = faults - 1
  /\ deliv' = [deliv EXCEPT ![t] =
                 Throw([@ EXCEPT !.settles = Append(@, "ack")], "ack")]
  /\ UNCHANGED <<queue, lists, expiring, stored, markers, mail, pubsub,
                 published, discarded, expired, nextId, budget, now, rands,
                 inputs, untrimmed, userlog, gw, svc,
                 sampleUsers, regs>>

\* this.channel.ack(msg) throws: it is the last statement of the try block,
\* so the catch block runs and calls nack.  No frame was sent.
AckThrows(t) ==
  /\ deliv[t].pc = "ret"
  /\ Unsettled(deliv[t])
  /\ faults > 0
  /\ faults' = faults - 1
  /\ deliv' = [deliv EXCEPT ![t] = Throw(@, "ack")]
  /\ UNCHANGED <<queue, lists, expiring, stored, markers, mail, pubsub,
                 published, discarded, expired, nextId, budget, now, rands,
                 inputs, untrimmed, userlog, gw, svc,
                 sampleUsers, regs>>

\* mutant of Nack: nack(msg, false, true), the broker requeues the message
NackRequeues(t) ==
  /\ deliv[t].pc = "thrown"
  /\ Unsettled(deliv[t])
  /\ deliv' = [deliv EXCEPT ![t].settled = "nacked",
                             ![t].settles = Append(@, "nack")]
  /\ queue' = [queue EXCEPT ![deliv[t].q] = <<deliv[t].msg>> \o @]
  /\ UNCHANGED <<lists, expiring, stored, markers, mail, pubsub, published,
                 discarded, expired, nextId, budget, faults, now, rands,
                 inputs, untrimmed,
                 userlog, gw, svc,
                 sampleUsers, regs>>

\* this.channel.nack(msg, false, false) in the catch block: rejected without
\* requeue, so the broker dead-letters the message
Nack(t) ==
  /\ deliv[t].pc = "thrown"
  /\ Unsettled(deliv[t])
  /\ deliv' = [deliv EXCEPT ![t].settled = "nacked",
                             ![t].settles = Append(@, "nack")]
  /\ queue' = DeadLetter(queue, deliv[t].q, deliv[t].msg)
  /\ discarded' = IF DeadLetterLost(deliv[t].q, deliv[t].msg)
                    THEN discarded \cup {t} ELSE discarded
  /\ UNCHANGED <<lists, expiring, stored, markers, mail, pubsub, published,
                 expired, nextId, budget, faults, now, rands, inputs, untrimmed,
                 userlog, gw, svc,
                 sampleUsers, regs>>

\* x-message-ttl: the message at the head of q outlives its hour and the
\* broker dead-letters it
Expire(q) ==
  /\ hasMessageTTL(q)
  /\ queue[q] # <<>>
  /\ LET m == Head(queue[q]) IN
       /\ queue' = DeadLetter([queue EXCEPT ![q] = Tail(@)], q, m)
       /\ discarded' = IF DeadLetterLost(q, m) THEN discarded \cup {m.id}
                                               ELSE discarded
       /\ expired' = expired \cup {m.id}
  /\ UNCHANGED <<deliv, lists, expiring, stored, markers, mail, pubsub,
                 published, nextId, budget, faults, now, rands, inputs, untrimmed,
                 userlog, gw, svc,
                 sampleUsers, regs>>


(***************************************************************************)
(* Channel adapters.  Every adapter body is one try block whose catch      *)
(* logs the error and returns normally.                                    *)
(***************************************************************************)
Entry(n, text, color) == [id |-> n.id, text |-> text, color |-> color]

\* sendEmailNotification: the switch, then
\* await this.emailTransporter.sendMail(mailOptions); when the template call
\* throws, sendMail is never reached.  The transport is taken as constructed.
EmailSend(t) ==
  /\ deliv[t].pc = "email_send"
  /\ \E ok \in (IF emailTemplateThrows(deliv[t].notif) THEN {TRUE}
                                                      ELSE Outcomes("smtp")) :
       /\ faults' = Spend(ok)
       /\ IF ok /\ ~emailTemplateThrows(deliv[t].notif)
            THEN /\ mail' = Append(mail, emailSubject(deliv[t].notif))
                 /\ deliv' = [deliv EXCEPT ![t] = AdapterReturns(Did(@, "email"))]
            ELSE /\ mail' = mail
                 /\ deliv' = [deliv EXCEPT ![t] = AdapterCatch(@)]
  /\ UNCHANGED <<queue, lists, expiring, stored, markers, pubsub, published,
                 discarded, expired, nextId, budget, now, rands, inputs, untrimmed,
                 userlog, gw, svc,
                 sampleUsers, regs>>

\* sendPushNotification: await this.redis.lpush('push_notifications', ...)
PushLpush(t) ==
  /\ deliv[t].pc = "push_lpush"
  /\ \E ok \in Outcomes("redis") :
       /\ faults' = Spend(ok)
       /\ untrimmed' = IF ok THEN untrimmed \cup {L_push} ELSE untrimmed
       /\ IF ok
            THEN /\ lists' = [lists EXCEPT ![L_push] =
                      Lpush(@, Entry(deliv[t].notif, getPushTitle(deliv[t].notif), ""))]
                 /\ deliv' = [deliv EXCEPT ![t] =
                                [Did(@, "push") EXCEPT !.pc = "push_ltrim"]]
            ELSE /\ lists' = lists
                 /\ deliv' = [deliv EXCEPT ![t] = AdapterCatch(@)]
  /\ UNCHANGED <<queue, expiring, stored, markers, mail, pubsub, published,
                 discarded, expired, nextId, budget, now, rands, inputs,
                 userlog, gw, svc,
                 sampleUsers, regs>>

\* sendPushNotification: await this.redis.ltrim('push_notifications', 0, 99)
PushLtrim(t) ==
  /\ deliv[t].pc = "push_ltrim"
  /\ \E ok \in Outcomes("redis") :
       /\ faults' = Spend(ok)
       /\ untrimmed' = IF ok THEN untrimmed \ {L_push} ELSE untrimmed
       /\ lists' = IF ok THEN [lists EXCEPT ![L_push] = Ltrim(@, PushTrimStop)]
                         ELSE lists
       /\ deliv' = [deliv EXCEPT ![t] =
                      IF ok THEN AdapterReturns(@)
                            ELSE AdapterCatch(Skipped(@, L_push))]
  /\ UNCHANGED <<queue, expiring, stored, markers, mail, pubsub, published,
                 discarded, expired, nextId, budget, now, rands, inputs,
                 userlog, gw, svc,
                 sampleUsers, regs>>

\* sendDashboardNotification: await this.redis.lpush('dashboard_notifications', ...)
DashLpush(t) ==
  /\ deliv[t].pc = "dash_lpush"
  /\ \E ok \in Outcomes("redis") :
       /\ faults' = Spend(ok)
       /\ untrimmed' = IF ok THEN untrimmed \cup {L_dash} ELSE untrimmed
       /\ IF ok
            THEN /\ lists' = [lists EXCEPT ![L_dash] =
                      Lpush(@, Entry(deliv[t].notif,
                                     getDashboardMessage(deliv[t].notif), ""))]
                 /\ deliv' = [deliv EXCEPT ![t] =
                                [Resolved(Did(@, "dashboard"), "lpush")
                                   EXCEPT !.pc = "dash_ltrim"]]
            ELSE /\ lists' = lists
                 /\ deliv' = [deliv EXCEPT ![t] = AdapterCatch(@)]
  /\ UNCHANGED <<queue, expiring, stored, markers, mail, pubsub, published,
                 discarded, expired, nextId, budget, now, rands, inputs,
                 userlog, gw, svc,
                 sampleUsers, regs>>

\* sendDashboardNotification: await this.redis.ltrim('dashboard_notifications', 0, 49)
DashLtrim(t) ==
  /\ deliv[t].pc = "dash_ltrim"
  /\ \E ok \in Outcomes("redis") :
       /\ faults' = Spend(ok)
       /\ untrimmed' = IF ok THEN untrimmed \ {L_dash} ELSE untrimmed
       /\ IF ok
            THEN /\ lists' = [lists EXCEPT ![L_dash] = Ltrim(@, DashTrimStop)]
                 /\ deliv' = [deliv EXCEPT ![t] =
                                [Resolved(@, "ltrim") EXCEPT !.pc = "dash_expire"]]
            ELSE /\ lists' = lists
                 /\ deliv' = [deliv EXCEPT ![t] = AdapterCatch(Skipped(@, L_dash))]
  /\ UNCHANGED <<queue, expiring, stored, markers, mail, pubsub, published,
                 discarded, expired, nextId, budget, now, rands, inputs,
                 userlog, gw, svc,
                 sampleUsers, regs>>

\* mutant of DashExpire: the expire call has a catch block of its own, and the
\* adapter goes on to the broadcast when it rejects
DashExpireSwallowed(t) ==
  /\ deliv[t].pc = "dash_expire"
  /\ \E ok \in Outcomes("redis") :
       /\ faults' = Spend(ok)
       /\ expiring' = IF ok THEN expiring \cup {[key |-> L_dash, ttl |-> DashTTL]}
                           ELSE expiring
       /\ deliv' = [deliv EXCEPT ![t] =
                      IF ok THEN [Resolved(@, "expire") EXCEPT !.pc = "dash_publish"]
                            ELSE [@ EXCEPT !.raised = Append(@, "dashboard"),
                                           !.pc = "dash_publish"]]
  /\ UNCHANGED <<queue, lists, stored, markers, mail, pubsub, published,
                 discarded, expired, nextId, budget, now, rands, inputs, untrimmed,
                 userlog, gw, svc,
                 sampleUsers, regs>>

\* sendDashboardNotification: await this.redis.expire('dashboard_notifications', 86400)
DashExpire(t) ==
  /\ deliv[t].pc = "dash_expire"
  /\ \E ok \in Outcomes("redis") :
       /\ faults' = Spend(ok)
       /\ IF ok
            THEN /\ expiring' = expiring \cup {[key |-> L_dash, ttl |-> DashTTL]}
                 /\ deliv' = [deliv EXCEPT ![t] =
                                [Resolved(@, "expire") EXCEPT !.pc = "dash_publish"]]
            ELSE /\ expiring' = expiring
                 /\ deliv' = [deliv EXCEPT ![t] = AdapterCatch(@)]
  /\ UNCHANGED <<queue, lists, stored, markers, mail, pubsub, published,
                 discarded, expired, nextId, budget, now, rands, inputs, untrimmed,
                 userlog, gw, svc,
                 sampleUsers, regs>>

\* sendDashboardNotification: await this.redis.publish('dashboard_updates', ...)
DashPublish(t) ==
  /\ deliv[t].pc = "dash_publish"
  /\ \E ok \in Outcomes("redis") :
       /\ faults' = Spend(ok)
       /\ pubsub' = IF ok THEN Append(pubsub, deliv[t].notif.id) ELSE pubsub
       /\ deliv' = [deliv EXCEPT ![t] =
                      IF ok THEN AdapterReturns(
                                   Resolved(Did(@, "broadcast"), "publish"))
                            ELSE AdapterCatch(@)]
  /\ UNCHANGED <<queue, lists, expiring, stored, markers, mail, published,
                 discarded, expired, nextId, budget, now, rands, inputs, untrimmed,
                 userlog, gw, svc,
                 sampleUsers, regs>>

\* sendSlackNotification: await this.redis.lpush('slack_notifications', ...)
SlackLpush(t) ==
  /\ deliv[t].pc = "slack_lpush"
  /\ \E ok \in Outcomes("redis") :
       /\ faults' = Spend(ok)
       /\ lists' = IF ok
                     THEN [lists EXCEPT ![L_slack] =
                            Lpush(@, Entry(deliv[t].notif,
                                           getDashboardMessage(deliv[t].notif),
                                           getSlackColor(deliv[t].notif.priority)))]
                     ELSE lists
       /\ deliv' = [deliv EXCEPT ![t] =
                      IF ok THEN AdapterReturns(Did(@, "slack"))
                            ELSE AdapterCatch(@)]
  /\ UNCHANGED <<queue, expiring, stored, markers, mail, pubsub, published,
                 discarded, expired, nextId, budget, now, rands, inputs, untrimmed,
                 userlog, gw, svc,
                 sampleUsers, regs>>

(***************************************************************************)
(* storeNotification: one try block; the catch logs and returns            *)
(***************************************************************************)
\* await this.redis.setex(`notification:${id}`, 86400 * 7, ...)
StoreSetex(t) ==
  /\ deliv[t].pc = "store_setex"
  /\ \E ok \in Outcomes("redis") :
       /\ faults' = Spend(ok)
       /\ IF ok
            THEN /\ stored' = stored \cup
                      {[id |-> deliv[t].notif.id, ttl |-> NotificationTTL]}
                 /\ deliv' = [deliv EXCEPT ![t].pc = "store_lpush"]
            ELSE /\ stored' = stored
                 /\ deliv' = [deliv EXCEPT ![t] = StoreCatch(@)]
  /\ UNCHANGED <<queue, lists, expiring, markers, mail, pubsub, published,
                 discarded, expired, nextId, budget, now, rands, inputs, untrimmed,
                 userlog, gw, svc,
                 sampleUsers, regs>>

\* await this.redis.lpush(`user:${userId}:notifications`, notification.id)
StoreLpush(t) ==
  /\ deliv[t].pc = "store_lpush"
  /\ \E ok \in Outcomes("redis") :
       /\ faults' = Spend(ok)
       /\ untrimmed' = IF ok THEN untrimmed \cup {L_user(deliv[t].notif.userId)} ELSE untrimmed
       /\ IF ok
            THEN /\ lists' = [lists EXCEPT ![L_user(deliv[t].notif.userId)] =
                      Lpush(@, Entry(deliv[t].notif, "", ""))]
                 /\ userlog' = Append(userlog,
                      [user |-> deliv[t].notif.userId, id |-> deliv[t].notif.id])
                 /\ deliv' = [deliv EXCEPT ![t].pc = "store_ltrim"]
            ELSE /\ lists' = lists
                 /\ userlog' = userlog
                 /\ deliv' = [deliv EXCEPT ![t] = StoreCatch(@)]
  /\ UNCHANGED <<queue, expiring, stored, markers, mail, pubsub, published,
                 discarded, expired, nextId, budget, now, rands, inputs, gw, svc,
                 sampleUsers, regs>>

\* await this.redis.ltrim(userKey, 0, 99)
StoreLtrim(t) ==
  /\ deliv[t].pc = "store_ltrim"
  /\ \E ok \in Outcomes("redis") :
       /\ faults' = Spend(ok)
       /\ untrimmed' = IF ok THEN untrimmed \ {L_user(deliv[t].notif.userId)} ELSE untrimmed
       /\ lists' = IF ok
                     THEN [lists EXCEPT ![L_user(deliv[t].notif.userId)] =
                            Ltrim(@, UserTrimStop)]
                     ELSE lists
       /\ deliv' = [deliv EXCEPT ![t] =
                      IF ok THEN [@ EXCEPT !.pc = "ret"]
                            ELSE StoreCatch(Skipped(@, L_user(@.notif.userId)))]
  /\ UNCHANGED <<queue, expiring, stored, markers, mail, pubsub, published,
                 discarded, expired, nextId, budget, now, rands, inputs,
                 userlog, gw, svc,
                 sampleUsers, regs>>


(***************************************************************************)
(* checkRevenueMilestones                                                  *)
(***************************************************************************)
\* mutant of MarkerSet: the marker read always comes back empty
MarkerNeverSet(ms, m) == FALSE

\* the key milestone:revenue:daily:<m> is set: written by SETEX and not yet
\* expired (the ttl is in seconds, the clock in milliseconds)
MarkerSet(ms, m) == \E k \in ms : k.m = m /\ now < k.at + k.ttl * 1000

\* mutant of Setex: the marker is not written
SetexNotWritten(ms, m, ttl) == ms

\* SETEX key ttl value: the key is written anew, with a fresh expiry
Setex(ms, m, ttl) ==
  { k \in ms : k.m # m } \cup {[m |-> m, at |-> now, ttl |-> ttl]}

\* const alreadyHit = await this.redis.get(key), then the test
\* !alreadyHit && dailyRevenue >= milestone
MsGet(t) ==
  /\ deliv[t].pc = "ms_get"
  /\ \E okGet \in Outcomes("redis") :
       LET m == milestones[deliv[t].mi]
           alreadyHit == MarkerSet(markers, m) IN
       /\ faults' = Spend(okGet)
       /\ deliv' = [deliv EXCEPT ![t] =
                      IF ~okGet THEN MarkerThrows(@)
                      ELSE IF ~alreadyHit /\ @.rev >= m
                             THEN [@ EXCEPT !.pc = "ms_setex"]
                             ELSE MilestoneContinue(@)]
  /\ UNCHANGED <<queue, lists, expiring, stored, markers, mail, pubsub,
                 published, discarded, expired, nextId, budget, now, rands, inputs, untrimmed,
                 userlog, gw, svc,
                 sampleUsers, regs>>

\* await this.redis.setex(key, 86400, 'true')
MsSetex(t) ==
  /\ deliv[t].pc = "ms_setex"
  /\ \E ok \in Outcomes("redis") :
       /\ faults' = Spend(ok)
       /\ IF ok
            THEN /\ markers' = Setex(markers, milestones[deliv[t].mi], MarkerTTL)
                 /\ deliv' = [deliv EXCEPT ![t].pc = "ms_publish"]
            ELSE /\ markers' = markers
                 /\ deliv' = [deliv EXCEPT ![t] = MarkerThrows(@)]
  /\ UNCHANGED <<queue, lists, expiring, stored, mail, pubsub, published,
                 discarded, expired, nextId, budget, now, rands, inputs, untrimmed,
                 userlog, gw, svc,
                 sampleUsers, regs>>

\* await this.channel.publish('notifications.events',
\*                            'revenue.milestone.achieved', ...)
MsPublish(t) ==
  /\ deliv[t].pc = "ms_publish"
  /\ \E ok \in Outcomes("broker") :
       /\ faults' = Spend(ok)
       /\ IF ok
            THEN /\ PublishTo(X_notif, K_achieved,
                      Body(TRUE, "none", "none", deliv[t].rev, milestones[deliv[t].mi]))
                 /\ published' = Append(published,
                      [milestone |-> milestones[deliv[t].mi],
                       currentRevenue |-> deliv[t].rev, by |-> t,
                       id |-> nextId, at |-> now])
                 /\ deliv' = [deliv EXCEPT ![t] = MilestoneContinue(@)]
            ELSE /\ UNCHANGED <<queue, discarded, nextId, published>>
                 /\ deliv' = [deliv EXCEPT ![t] = PublishThrows(@)]
  /\ UNCHANGED <<lists, expiring, stored, markers, mail, pubsub, expired,
                 budget, now, rands, inputs, untrimmed,
                 userlog, gw, svc,
                 sampleUsers, regs>>

(***************************************************************************)
(* Producers                                                               *)
(***************************************************************************)
\* a body JSON.parse rejects
Garbage == Body(FALSE, "none", "none", 0, 0)

Event(x, k, b) == [x |-> x, rk |-> k, body |-> b]

\* order service: publishOrderEvent(eventType, data) on orders.events
OrderEvents(us) ==
  { Event(X_orders, k, Body(TRUE, u, "none", 0, 0)) :
      k \in {K_created, K_cancelled, K_updated}, u \in us }

\* analytics producer: {data: {dailyRevenue}} on analytics.events
AnalyticsEvents(ks, rs) ==
  { Event(X_analytics, k, Body(TRUE, "none", "none", r, 0)) : k \in ks, r \in rs }

\* alert producer: {severity, productName} on notifications.events
AlertEvents ==
  { Event(X_notif, k, Body(TRUE, "none", sv, 0, 0)) :
      k \in {K_lowstock, K_sysalert}, sv \in Severities }

\* a producer publishes one of the events of this behaviour
Publish ==
  /\ budget > 0
  /\ \E e \in inputs : PublishTo(e.x, e.rk, e.body)
  /\ budget' = budget - 1
  /\ UNCHANGED <<deliv, lists, expiring, stored, markers, mail, pubsub,
                 published, expired, faults, now, rands, inputs, untrimmed,
                 userlog, gw, svc,
                 sampleUsers, regs>>

\* a set of message ids as a sequence, smallest (oldest) first
RECURSIVE Ascending(_)
Ascending(S) ==
  IF S = {} THEN <<>>
  ELSE LET x == CHOOSE y \in S : \A z \in S : y <= z IN
       <<x>> \o Ascending(S \ {x})

\* the messages the consumer of q holds unacknowledged, oldest first
Requeued(q) ==
  LET ids == Ascending(Unacked(q)) IN [i \in 1..Len(ids) |-> deliv[ids[i]].msg]

\* The process stops: SIGTERM/SIGINT run gracefulShutdown (channel.close(),
\* then process.exit(0)), or the process dies.  The handlers in flight are
\* abandoned where they are suspended, and the broker puts every message the
\* closed channel held unacknowledged back at the head of its queue; the
\* restarted service consumes the same queues again.  Redis keeps its data.
Abandoned ==
  [t \in DOMAIN deliv |->
     IF Unsettled(deliv[t])
       THEN [deliv[t] EXCEPT !.pc = "lost", !.settled = "requeued",
                             !.lostAt = deliv[t].pc,
                             !.lostMi = deliv[t].mi]
       ELSE deliv[t]]

RequeuedAll ==
  [q \in QueueNames |->
     IF q \in ConsumerQueues THEN Requeued(q) \o queue[q] ELSE queue[q]]

Crash ==
  /\ faults > 0
  /\ faults' = faults - 1
  /\ deliv' = Abandoned
  /\ queue' = RequeuedAll
  /\ UNCHANGED <<lists, expiring, stored, markers, mail, pubsub, published,
                 discarded, expired, nextId, budget, now, rands, inputs,
                 untrimmed, userlog, gw, svc,
                 sampleUsers, regs>>

\* initialize(): the awaited call it is suspended on resolves, or rejects and
\* the catch block runs process.exit(1)
InitStep ==
  /\ svc.state = "starting"
  /\ \E ok \in Outcomes("broker") :
       /\ faults' = Spend(ok)
       /\ IF ok
            THEN /\ svc' = [at |-> svc.at + 1,
                            state |-> IF svc.at = Len(initializeCalls)
                                        THEN "running" ELSE "starting"]
                 /\ UNCHANGED <<deliv, queue>>
            ELSE /\ svc' = [svc EXCEPT !.state = "exited"]
                 /\ deliv' = Abandoned
                 /\ queue' = RequeuedAll
  /\ UNCHANGED <<lists, expiring, stored, markers, mail, pubsub, published,
                 discarded, expired, nextId, budget, now, rands, inputs,
                 untrimmed, userlog, gw,
                 sampleUsers, regs>>

\* API gateway, listenToAnalyticsEvents: the consumer callback of
\* gateway.analytics.updates.  It has no await: JSON.parse, the broadcast to
\* the room named by the third word of the routing key, then channel.ack(msg).
\* JSON.parse is not in a try block: when it throws, the callback ends before
\* the ack and the gateway keeps the message unacknowledged.
GatewayConsume ==
  /\ queue[Q_gateway] # <<>>
  /\ LET m == Head(queue[Q_gateway]) IN
       /\ queue' = [queue EXCEPT ![Q_gateway] = Tail(@)]
       /\ gw' = Append(gw,
                  IF m.body.decodable
                    THEN [id |-> m.id, rk |-> m.rk, room |-> m.rk[3],
                          settled |-> "acked"]
                    ELSE [id |-> m.id, rk |-> m.rk, room |-> "none",
                          settled |-> "no"])
  /\ UNCHANGED <<deliv, lists, expiring, stored, markers, mail, pubsub,
                 published, discarded, expired, nextId, budget, faults, now,
                 rands, inputs, untrimmed, userlog, svc,
                 sampleUsers, regs>>

(***************************************************************************)
(* Auth router: POST /register against the in-memory user list            *)
(***************************************************************************)
\* an email address as sent: its lower-case spelling and whether the request
\* wrote it with capitals
Addresses == {"admin@example.com", "new@example.com"}
RawEmails == [addr : Addresses, caps : BOOLEAN]

\* body('email').isEmail().normalizeEmail(): the address in lower case
normalizeEmail(raw) == [raw EXCEPT !.caps = FALSE]

\* const sampleUsers = [...]: the two demo users
InitialUsers ==
  <<[id |-> 1, email |-> [addr |-> "admin@example.com", caps |-> FALSE]],
    [id |-> 2, email |-> [addr |-> "user@example.com", caps |-> FALSE]]>>

\* sampleUsers.find(u => u.email === email)
FindByEmail(us, email) == { i \in 1..Len(us) : us[i].email = email }

\* a validated request reaches the route handler: the existence check, then
\* either the 409 response or the handler suspends on bcrypt.hash
Register ==
  /\ Len(regs) < MaxRegs
  /\ \E raw \in RawEmails :
       LET email == normalizeEmail(raw)
           existingUser == FindByEmail(sampleUsers, email) # {} IN
       regs' = Append(regs,
                 IF existingUser
                   THEN [email |-> email, pc |-> "done", status |-> 409, id |-> 0]
                   ELSE [email |-> email, pc |-> "hash", status |-> 0, id |-> 0])
  /\ UNCHANGED <<queue, deliv, lists, expiring, stored, markers, mail, pubsub,
                 published, discarded, expired, nextId, budget, faults, now,
                 rands, inputs, untrimmed, userlog, gw, svc, sampleUsers>>

\* bcrypt.hash resolves: newUser is built with id sampleUsers.length + 1 and
\* pushed, the token is signed, and the handler suspends on the first sadd
Hashed(r) ==
  /\ regs[r].pc = "hash"
  /\ sampleUsers' = Append(sampleUsers,
                      [id |-> Len(sampleUsers) + 1, email |-> regs[r].email])
  /\ regs' = [regs EXCEPT ![r].pc = "sadd_new", ![r].id = Len(sampleUsers) + 1]
  /\ UNCHANGED <<queue, deliv, lists, expiring, stored, markers, mail, pubsub,
                 published, discarded, expired, nextId, budget, faults, now,
                 rands, inputs, untrimmed, userlog, gw, svc>>

\* await redis.sadd(`users:new:${today}`, newUser.id); a rejection reaches the
\* catch block: 500, the user stays in the list
SaddNew(r) ==
  /\ regs[r].pc = "sadd_new"
  /\ \E ok \in Outcomes("redis") :
       /\ faults' = Spend(ok)
       /\ regs' = IF ok THEN [regs EXCEPT ![r].pc = "sadd_active"]
                        ELSE [regs EXCEPT ![r].pc = "done", ![r].status = 500]
  /\ UNCHANGED <<queue, deliv, lists, expiring, stored, markers, mail, pubsub,
                 published, discarded, expired, nextId, budget, now,
                 rands, inputs, untrimmed, userlog, gw, svc, sampleUsers>>

\* await redis.sadd(`users:active:${today}`, newUser.id), then the 201 response
SaddActive(r) ==
  /\ regs[r].pc = "sadd_active"
  /\ \E ok \in Outcomes("redis") :
       /\ faults' = Spend(ok)
       /\ regs' = [regs EXCEPT ![r].pc = "done",
                               ![r].status = IF ok THEN 201 ELSE 500]
  /\ UNCHANGED <<queue, deliv, lists, expiring, stored, markers, mail, pubsub,
                 published, discarded, expired, nextId, budget, now,
                 rands, inputs, untrimmed, userlog, gw, svc, sampleUsers>>

\* Date.now() moves on by ms milliseconds
Tick(ms) ==
  /\ now + ms <= 1 + MaxTicks * ms
  /\ now' = now + ms
  /\ UNCHANGED <<queue, deliv, lists, expiring, stored, markers, mail, pubsub,
                 published, discarded, expired, nextId, budget, faults, rands,
                 inputs, untrimmed,
                 userlog, gw, svc,
                 sampleUsers, regs>>

\* the aggregation window of the daily revenue metric: the calendar day
DayMs == 86400 * 1000
HalfDayMs == DayMs \div 2
Period(ms) == ms \div DayMs

\* no handler is suspended on an awaited call
Idle == \A t \in DOMAIN deliv : deliv[t].pc \in {"ret", "thrown"}

\* half a day passes between two evaluations
HalfDayPasses == Idle /\ Tick(HalfDayMs)

(***************************************************************************)
(* Specifications                                                          *)
(***************************************************************************)
\* Redis outlives the service: the capped lists start empty or full
InitLists(full) ==
  [k \in ListKeys |->
     IF ~full THEN <<>>
     ELSE CASE k = L_push  -> Filled(PushTrimStop + 1)
            [] k = L_dash  -> Filled(DashTrimStop + 1)
            [] k = L_slack -> <<>>
            [] OTHER       -> Aged(UserTrimStop + 1)]

InitBroker(evs, n, fl, full, rs) ==
  /\ queue = [q \in QueueNames |-> <<>>]
  /\ deliv = <<>>
  /\ lists = InitLists(full)
  /\ expiring = {}
  /\ stored = {}
  /\ markers = {}
  /\ mail = <<>>
  /\ pubsub = <<>>
  /\ published = <<>>
  /\ discarded = {}
  /\ expired = {}
  /\ nextId = 1
  /\ budget = n
  /\ faults = fl
  /\ now = 1
  /\ rands = rs
  /\ inputs = evs
  /\ untrimmed = {}
  /\ userlog = <<>>
  /\ gw = <<>>
  /\ sampleUsers = InitialUsers
  /\ regs = <<>>

\* the service has been initialised: every consumer is started
InitWith(evs, n, fl, full, rs) ==
  InitBroker(evs, n, fl, full, rs) /\ svc = Running

\* The fan-out pipeline: the orders and alerts consumers, the channel
\* adapters, the notification store and dead-lettering.
Init ==
  \E full \in BOOLEAN :
    InitWith(OrderEvents(Users) \cup AlertEvents
               \cup {Event(X_orders, K_created, Garbage),
                     Event(X_notif, K_lowstock, Garbage)},
             MaxMsgs, MaxFaults, full, {1})

Next ==
  \/ Publish
  \/ \E q \in {Q_orders, Q_alerts} : Deliver(q)
  \/ \E q \in {Q_orders, Q_alerts} : Expire(q)
  \/ \E t \in DOMAIN deliv : EmailSend(t)
  \/ \E t \in DOMAIN deliv : PushLpush(t)
  \/ \E t \in DOMAIN deliv : PushLtrim(t)
  \/ \E t \in DOMAIN deliv : DashLpush(t)
  \/ \E t \in DOMAIN deliv : DashLtrim(t)
  \/ \E t \in DOMAIN deliv : DashExpire(t)
  \/ \E t \in DOMAIN deliv : DashPublish(t)
  \/ \E t \in DOMAIN deliv : SlackLpush(t)
  \/ \E t \in DOMAIN deliv : StoreSetex(t)
  \/ \E t \in DOMAIN deliv : StoreLpush(t)
  \/ \E t \in DOMAIN deliv : StoreLtrim(t)
  \/ \E t \in DOMAIN deliv : Ack(t)
  \/ \E t \in DOMAIN deliv : Nack(t)

Spec == Init /\ [][Next]_vars


\* Milestone detection: the analytics consumer with concurrent evaluations.
InitAnalytics ==
  InitWith(AnalyticsEvents({K_revenue}, Revenues)
             \cup AnalyticsEvents({K_aorders, K_amile}, {0})
             \cup {Event(X_analytics, K_revenue, Garbage)},
           MaxEvals, MaxFaults, FALSE, {1})

NextAnalytics ==
  \/ Publish
  \/ Deliver(Q_analytics)
  \/ Expire(Q_analytics)
  \/ \E t \in DOMAIN deliv : MsGet(t)
  \/ \E t \in DOMAIN deliv : MsSetex(t)
  \/ \E t \in DOMAIN deliv : MsPublish(t)
  \/ \E t \in DOMAIN deliv : Ack(t)
  \/ \E t \in DOMAIN deliv : Nack(t)

SpecAnalytics == InitAnalytics /\ [][NextAnalytics]_vars

\* Handler failures: analytics events whose handler throws (the missing
\* checkOrderMilestones, a Redis or broker failure in checkRevenueMilestones)
\* next to events whose handler returns.
InitReject ==
  \E full \in BOOLEAN :
    InitWith(AnalyticsEvents({K_revenue}, Revenues)
               \cup AnalyticsEvents({K_aorders, K_amile, K_ausers}, {0})
               \cup {Event(X_analytics, K_revenue, Garbage)},
             MaxMsgs, MaxFaults, full, {1})

SpecReject == InitReject /\ [][NextAnalytics]_vars

\* The prefetch window: a burst of events whose handlers return at once, on
\* two of the three consumers of the one channel.
InitPrefetch ==
  InitWith({Event(X_orders, K_updated, Body(TRUE, "U1", "none", 0, 0)),
            Event(X_analytics, K_amile, Body(TRUE, "none", "none", 0, 0))},
           MaxBurst, 0, FALSE, {1})

NextPrefetch ==
  \/ Publish
  \/ \E q \in {Q_orders, Q_analytics} : Deliver(q)
  \/ \E t \in DOMAIN deliv : Ack(t)

SpecPrefetch == InitPrefetch /\ [][NextPrefetch]_vars


\* Sequential milestone detection: one analytics event is evaluated at a
\* time, Redis and the broker do not fail, and the clock stands still, so
\* all evaluations fall in one period and no marker expires.
InitSequential ==
  InitWith(AnalyticsEvents({K_revenue}, Revenues)
             \cup AnalyticsEvents({K_amile}, {0})
             \cup {Event(X_analytics, K_revenue, Garbage)},
           MaxEvals, 0, FALSE, {1})

NextSequential ==
  \/ Publish
  \/ DeliverSequential(Q_analytics)
  \/ \E t \in DOMAIN deliv : MsGet(t)
  \/ \E t \in DOMAIN deliv : MsSetex(t)
  \/ \E t \in DOMAIN deliv : MsPublish(t)
  \/ \E t \in DOMAIN deliv : Ack(t)
  \/ \E t \in DOMAIN deliv : Nack(t)

SpecSequential == InitSequential /\ [][NextSequential]_vars


\* Milestone detection over several days: evaluations that do not overlap,
\* half a day apart or in the same half day; Redis and the broker do not fail.
InitPeriods ==
  InitWith(AnalyticsEvents({K_revenue}, Revenues), MaxEvals, 0, FALSE, {1})

NextPeriods ==
  \/ Publish
  \/ DeliverSequential(Q_analytics)
  \/ \E t \in DOMAIN deliv : MsGet(t)
  \/ \E t \in DOMAIN deliv : MsSetex(t)
  \/ \E t \in DOMAIN deliv : MsPublish(t)
  \/ \E t \in DOMAIN deliv : Ack(t)
  \/ HalfDayPasses

SpecPeriods == InitPeriods /\ [][NextPeriods]_vars


\* Concurrent alert handling: alerts delivered within the prefetch window,
\* with a millisecond clock; Redis and the mail transport do not fail.
InitAlerts ==
  InitWith({Event(X_notif, K_sysalert, Body(TRUE, "none", "warning", 0, 0)),
            Event(X_notif, K_lowstock, Body(TRUE, "none", "critical", 0, 0))},
           MaxAlerts, 0, FALSE, {1})

NextAlerts ==
  \/ Publish
  \/ Deliver(Q_alerts)
  \/ \E t \in DOMAIN deliv : DashLpush(t)
  \/ \E t \in DOMAIN deliv : DashLtrim(t)
  \/ \E t \in DOMAIN deliv : DashExpire(t)
  \/ \E t \in DOMAIN deliv : DashPublish(t)
  \/ \E t \in DOMAIN deliv : SlackLpush(t)
  \/ \E t \in DOMAIN deliv : EmailSend(t)
  \/ \E t \in DOMAIN deliv : Ack(t)
  \/ Tick(1)

SpecAlerts == InitAlerts /\ [][NextAlerts]_vars


\* Restart: the orders pipeline with a process that can stop at any moment
\* and be started again.
InitRestart ==
  InitWith(OrderEvents({"U1"}), MaxMsgs, MaxFaults, FALSE, {1})

NextRestart ==
  \/ Publish
  \/ Deliver(Q_orders)
  \/ \E t \in DOMAIN deliv : EmailSend(t)
  \/ \E t \in DOMAIN deliv : PushLpush(t)
  \/ \E t \in DOMAIN deliv : PushLtrim(t)
  \/ \E t \in DOMAIN deliv : DashLpush(t)
  \/ \E t \in DOMAIN deliv : DashLtrim(t)
  \/ \E t \in DOMAIN deliv : DashExpire(t)
  \/ \E t \in DOMAIN deliv : DashPublish(t)
  \/ \E t \in DOMAIN deliv : StoreSetex(t)
  \/ \E t \in DOMAIN deliv : StoreLpush(t)
  \/ \E t \in DOMAIN deliv : StoreLtrim(t)
  \/ \E t \in DOMAIN deliv : Ack(t)
  \/ Crash

SpecRestart == InitRestart /\ [][NextRestart]_vars


\* Two consumers of analytics.events: the notification service on
\* notifications.analytics and the API gateway on gateway.analytics.updates.
InitDual ==
  InitWith(AnalyticsEvents({K_revenue}, Revenues)
             \cup AnalyticsEvents({K_aorders, K_amile, K_ausers}, {0})
             \cup {Event(X_analytics, K_revenue, Garbage)},
           MaxMsgs, MaxFaults, FALSE, {1})

NextDual ==
  \/ NextAnalytics
  \/ GatewayConsume

SpecDual == InitDual /\ [][NextDual]_vars


\* Start-up: initialize() runs while producers publish; the queues are
\* durable and exist from an earlier run, so events wait in them.  The events
\* are ones whose handlers return at once.
InitLifecycle ==
  /\ InitBroker({Event(X_orders, K_updated, Body(TRUE, "U1", "none", 0, 0)),
                 Event(X_analytics, K_amile, Body(TRUE, "none", "none", 0, 0)),
                 Event(X_analytics, K_aorders, Body(TRUE, "none", "none", 0, 0))},
                MaxMsgs, MaxFaults, FALSE, {1})
  /\ svc = Starting

NextLifecycle ==
  \/ Publish
  \/ InitStep
  \/ \E q \in {Q_orders, Q_analytics} : Deliver(q)
  \/ \E t \in DOMAIN deliv : Ack(t)
  \/ \E t \in DOMAIN deliv : Nack(t)

SpecLifecycle == InitLifecycle /\ [][NextLifecycle]_vars


\* Interrupted appends: alerts fanned out one at a time to a full dashboard
\* list, with a Redis command that can fail and a process that can stop
\* between a push and its trim.
InitInterrupted ==
  InitWith({Event(X_notif, K_sysalert, Body(TRUE, "none", "warning", 0, 0))},
           MaxAlerts, MaxFaults, TRUE, {1})

NextInterrupted ==
  \/ Publish
  \/ DeliverSequential(Q_alerts)
  \/ \E t \in DOMAIN deliv : DashLpush(t)
  \/ \E t \in DOMAIN deliv : DashLtrim(t)
  \/ \E t \in DOMAIN deliv : DashExpire(t)
  \/ \E t \in DOMAIN deliv : DashPublish(t)
  \/ \E t \in DOMAIN deliv : SlackLpush(t)
  \/ \E t \in DOMAIN deliv : Ack(t)
  \/ Crash

SpecInterrupted == InitInterrupted /\ [][NextInterrupted]_vars


\* A burst on two queues, up to the trims: system alerts arrive faster than
\* they are handled while the orders consumer handles a cancelled order; both
\* consumers hand their notifications to sendDashboardNotification.  Redis
\* and the transport do not fail and the dashboard list starts at its cap.
InitBurst ==
  InitWith({Event(X_orders, K_cancelled, Body(TRUE, "U1", "none", 0, 0)),
            Event(X_notif, K_sysalert, Body(TRUE, "none", "warning", 0, 0))},
           MaxBurst, 0, TRUE, {1})

NextBurst ==
  \/ Publish
  \/ DeliverSequential(Q_orders)
  \/ Deliver(Q_alerts)
  \/ \E t \in DOMAIN deliv : EmailSend(t)
  \/ \E t \in DOMAIN deliv : DashLpush(t)

SpecBurst == InitBurst /\ [][NextBurst]_vars


\* Milestone detection with failures: one evaluation at a time, a Redis or
\* broker call can fail and the process can stop and start again; the clock
\* stands still, so no marker expires.
InitMarkerFirst ==
  InitWith(AnalyticsEvents({K_revenue}, Revenues \ {0}), MaxEvals, MaxFaults,
           FALSE, {1})

NextMarkerFirst ==
  \/ NextSequential
  \/ Crash

SpecMarkerFirst == InitMarkerFirst /\ [][NextMarkerFirst]_vars


\* The dashboard adapter with a failing Redis: system alerts handled
\* concurrently, the process keeps running.
NextDashboard ==
  \/ Publish
  \/ Deliver(Q_alerts)
  \/ \E t \in DOMAIN deliv : DashLpush(t)
  \/ \E t \in DOMAIN deliv : DashLtrim(t)
  \/ \E t \in DOMAIN deliv : DashExpire(t)
  \/ \E t \in DOMAIN deliv : DashPublish(t)
  \/ \E t \in DOMAIN deliv : SlackLpush(t)
  \/ \E t \in DOMAIN deliv : Ack(t)

SpecDashboard == InitInterrupted /\ [][NextDashboard]_vars


\* The registration route: requests for the same and for different addresses
\* are in flight together, Redis can fail.
InitRegister == InitWith({}, 0, MaxFaults, FALSE, {1})

NextRegister ==
  \/ Register
  \/ \E r \in DOMAIN regs : Hashed(r)
  \/ \E r \in DOMAIN regs : SaddNew(r)
  \/ \E r \in DOMAIN regs : SaddActive(r)

SpecRegister == InitRegister /\ [][NextRegister]_vars


\* Settlement: the analytics consumer with handlers that return or throw and
\* an ack call that can throw.
SpecSettle ==
  InitReject /\ [][NextAnalytics \/ \E t \in DOMAIN deliv : AckThrows(t)]_vars


(***************************************************************************)
(* Properties                                                              *)
(***************************************************************************)
Deliveries == { deliv[t] : t \in DOMAIN deliv }

Range(seq) == { seq[i] : i \in 1..Len(seq) }

Count(seq, v) == Cardinality({ i \in 1..Len(seq) : seq[i] = v })

\* message id is ready in queue q
Ready(q, id) == \E i \in 1..Len(queue[q]) : queue[q][i].id = id

\* the calls a handler makes when nothing raises, read off its straight line
ExpectedCalls(d) ==
  CASE d.q = Q_orders ->
         IF RuleFor(d.msg.rk) = NoRule THEN <<>>
         ELSE RuleFor(d.msg.rk).channels \o <<"store">>
    [] d.q = Q_alerts ->
         IF d.msg.body.severity = "critical"
           THEN <<"dashboard", "slack", "email">>
           ELSE <<"dashboard", "slack">>
    [] OTHER -> <<>>

\* C1: evaluated concurrently for one threshold in one period (the markers of
\* these behaviours never expire), checkRevenueMilestones publishes at most one
\* revenue.milestone.achieved event per threshold.
C1_OneEventPerThreshold ==
  \A m \in Range(milestones) :
    Cardinality({ i \in 1..Len(published) : published[i].milestone = m }) <= 1

\* C2: once an adapter of a delivery has raised, the handler still makes every
\* call it makes when nothing raises, nothing is thrown to the consumer, and
\* the message is acknowledged, never rejected.
C2_AdapterErrorIsolated ==
  \A d \in Deliveries :
    d.raised # <<>> =>
      /\ d.err = "none"
      /\ d.settled # "nacked"
      /\ d.pc = "ret" => d.calls = ExpectedCalls(d)
      /\ Len(d.calls) <= Len(ExpectedCalls(d))
      /\ \A i \in 1..Len(d.calls) : d.calls[i] = ExpectedCalls(d)[i]

\* C2 witness: an adapter raised, a later call was made, the message was acked
C2_Witness ==
  \E d \in Deliveries :
    /\ d.raised # <<>>
    /\ d.raised[1] \in {"email", "push", "dashboard", "slack"}
    /\ d.raised[1] # d.calls[Len(d.calls)]
    /\ d.settled = "acked"

\* C3: a message whose handler threw is never acknowledged; once rejected it is
\* not put back in the queue it came from, so it is not delivered again.
C3_HandlerErrorDeadLetters ==
  \A d \in Deliveries :
    d.err = "handler" =>
      /\ d.pc = "thrown"
      /\ d.settled # "acked"
      /\ d.settled = "nacked" => ~Ready(d.q, d.msg.id)

\* C3 witness: a handler threw and its message was rejected
C3_Witness ==
  \E d \in Deliveries : d.err = "handler" /\ d.settled = "nacked"

\* C4: every message dead-lettered from a notification queue, by rejection or
\* by TTL expiry, is in notifications.failed (which nothing consumes).
C4_DeadLettersReachFailedQueue ==
  /\ \A d \in Deliveries : d.settled = "nacked" => Ready(Q_failed, d.msg.id)
  /\ \A id \in expired : Ready(Q_failed, id)

\* C5: a message is acknowledged only when its handler has returned, having
\* made every call of its straight line (adapters and store; none on a rule miss).
C5_AckAfterHandler ==
  \A d \in Deliveries :
    d.settled = "acked" => d.pc = "ret" /\ d.calls = ExpectedCalls(d)

\* C5 witness: an acknowledged message whose handler fanned out and stored
C5_Witness ==
  \E d \in Deliveries :
    d.settled = "acked" /\ d.notif # NoNotif /\ "store" \in Range(d.calls)

\* C6: for a consumed event whose routing key has no rule, no Notification is
\* built and no adapter is called.
C6_NoRuleNoNotification ==
  \A d \in Deliveries :
    (d.msg.body.decodable /\ RuleFor(d.msg.rk) = NoRule) =>
      d.notif = NoNotif /\ d.calls = <<>>

\* C7: for a Notification built for an event with a rule, once the handler has
\* returned: the channel set is a non-empty subset of the rule's channels, each
\* listed channel's adapter was called exactly once, no other adapter was called.
C7_ListedChannelsCalledOnce ==
  \A d \in Deliveries :
    (d.notif # NoNotif /\ RuleFor(d.msg.rk) # NoRule /\ d.pc = "ret") =>
      /\ d.notif.channels # <<>>
      /\ Range(d.notif.channels) \subseteq Range(RuleFor(d.msg.rk).channels)
      /\ \A ch \in Range(d.notif.channels) : Count(d.calls, ch) = 1
      /\ Range(d.calls) \ {"store"} \subseteq Range(d.notif.channels)

\* the cap of a capped list: LTRIM key 0 stop keeps stop + 1 entries
Cap(k) ==
  CASE k = L_push -> PushTrimStop + 1
    [] k = L_dash -> DashTrimStop + 1
    [] OTHER      -> UserTrimStop + 1

CappedLists == ListKeys \ {L_slack}

\* C8: after any sequence of appends (each LPUSH followed by its completed
\* LTRIM) a capped list holds at most its cap: 100 pushes, 50 dashboard
\* notifications, 100 ids per user.
C8_CappedListsWithinCap ==
  \A k \in CappedLists : k \notin untrimmed => Len(lists[k]) <= Cap(k)

\* C8 witness: an append to the full push list completed and evicted an entry
C8_Witness ==
  /\ L_push \notin untrimmed
  /\ Len(lists[L_push]) = Cap(L_push)
  /\ lists[L_push][1] # OldEntry

\* C9: a message whose body does not decode reaches the catch block at once:
\* no handler ran, no Notification was built, no adapter or store call was made,
\* it is never acknowledged, and once rejected it is not requeued.
C9_DecodeFailureDeadLetters ==
  \A d \in Deliveries :
    ~d.msg.body.decodable =>
      /\ d.err = "decode" /\ d.pc = "thrown"
      /\ d.notif = NoNotif /\ d.calls = <<>>
      /\ d.settled # "acked"
      /\ d.settled = "nacked" => ~Ready(d.q, d.msg.id)

\* C9 witness: an undecodable message was delivered and rejected
C9_Witness ==
  \E d \in Deliveries : ~d.msg.body.decodable /\ d.settled = "nacked"

\* C10: the messages delivered and not yet settled, over all consumers of the
\* channel, number at most the prefetch count 5.
C10_PrefetchSharedAcrossQueues ==
  Cardinality({ t \in DOMAIN deliv : Unsettled(deliv[t]) }) <= PREFETCH

\* achieved events published for threshold m, as indexes of published
EventsFor(m) == { i \in 1..Len(published) : published[i].milestone = m }

\* evaluations whose metric is at or above threshold m
Reaching(m) == { t \in DOMAIN deliv : deliv[t].rev >= m }

\* C11: with evaluations that do not overlap, in one period: for every
\* threshold at most one achieved event is published, it is published by the
\* first evaluation whose metric is at or above the threshold, and every such
\* evaluation that has returned finds the event published (so a higher
\* threshold still gets its event the first time the metric reaches it).
C11_SequentialEvaluationsPublishOnce ==
  \A m \in Range(milestones) :
    /\ Cardinality(EventsFor(m)) <= 1
    /\ \A i \in EventsFor(m) :
         /\ published[i].by \in Reaching(m)
         /\ \A t \in Reaching(m) : published[i].by <= t
    /\ \A t \in Reaching(m) : deliv[t].pc = "ret" => EventsFor(m) # {}

\* C11 witness: a first evaluation at 1500 and a later one at 6000 were both
\* acknowledged; 1000 was published by the first, 5000 by the second, and
\* nothing else was published
C11_Witness ==
  \E t1, t2 \in DOMAIN deliv :
    /\ t1 < t2
    /\ deliv[t1].rev = 1500 /\ deliv[t1].settled = "acked"
    /\ deliv[t2].rev = 6000 /\ deliv[t2].settled = "acked"
    /\ Len(published) = 2
    /\ published[1].milestone = 1000 /\ published[1].by = t1
    /\ published[2].milestone = 5000 /\ published[2].by = t2

\* C12: for every evaluation that has returned and every threshold its metric
\* is at or above, an achieved event for that threshold was published in the
\* period (calendar day) of the evaluation, whatever was marked on earlier days.
C12_MilestoneScopedByPeriod ==
  \A t \in DOMAIN deliv : \A m \in Range(milestones) :
    (deliv[t].pc = "ret" /\ deliv[t].rev >= m) =>
      \E i \in EventsFor(m) : Period(published[i].at) = Period(deliv[t].at)

\* C13: every achieved event the milestone detector published was routed by
\* notifications.events to some queue (and so can be consumed): none of them
\* was dropped by the broker as unroutable.
C13_AchievedEventsAreRouted ==
  \A i \in 1..Len(published) : published[i].id \notin discarded

\* the handler of a delivery has run (to its first await at least)
HandlerRan(d) == d.err # "decode"

\* C14: every consumed, decodable event whose routing key has a rule has a
\* Notification built for it, whichever queue delivered it (a delivery holds
\* one Notification at most).
C14_OneNotificationPerMatchedEvent ==
  \A d \in Deliveries :
    (d.msg.body.decodable /\ RuleFor(d.msg.rk) # NoRule /\ HandlerRan(d)) =>
      d.notif # NoNotif

\* C15: every Notification built for an event whose routing key has a rule
\* carries that rule's type, priority and channel set.
C15_NotificationCopiesRule ==
  \A d \in Deliveries :
    (d.notif # NoNotif /\ RuleFor(d.msg.rk) # NoRule) =>
      /\ d.notif.type = RuleFor(d.msg.rk).type
      /\ d.notif.priority = RuleFor(d.msg.rk).priority
      /\ Range(d.notif.channels) = Range(RuleFor(d.msg.rk).channels)

\* C16: no two Notifications built have the same id.
C16_NotificationIdsUnique ==
  \A t1, t2 \in DOMAIN deliv :
    (t1 # t2 /\ deliv[t1].notif # NoNotif /\ deliv[t2].notif # NoNotif) =>
      deliv[t1].notif.id # deliv[t2].notif.id

\* notification:<id> is set with the 7-day expiry
Persisted(n) == [id |-> n.id, ttl |-> NotificationTTL] \in stored

\* C17: every Notification built, by any queue's handler, is persisted under
\* notification:<id> with a 7-day expiry by the time its handler has returned,
\* unless a store write failed.
C17_EveryNotificationPersisted ==
  \A d \in Deliveries :
    (d.notif # NoNotif /\ d.pc = "ret" /\ "store" \notin Range(d.raised)) =>
      Persisted(d.notif)

\* the first n elements of a sequence
Take(s, n) == SubSeq(s, 1, IF Len(s) < n THEN Len(s) ELSE n)

\* the ids pushed to the list of user u, the most recently pushed first
RECURSIVE NewestFirst(_, _)
NewestFirst(log, u) ==
  IF log = <<>> THEN <<>>
  ELSE LET rest == NewestFirst(Tail(log), u) IN
       IF Head(log).user = u
         THEN Append(rest, [id |-> Head(log).id, text |-> "", color |-> ""])
         ELSE rest

\* storeNotification ran through all three writes for the delivery
StoreCompleted(d) ==
  d.pc = "ret" /\ "store" \in Range(d.calls) /\ "store" \notin Range(d.raised)

\* C18: whenever every push to a user's list has been followed by a completed
\* trim, the list is the user's pushed ids, newest first, followed by what the
\* list held at start in its old order, cut to the 100 newest (so what is
\* evicted is the oldest); every pushed id is a stored notification, and every
\* completed storeNotification call has pushed its id to the list of its user.
C18_UserListNewestFirstCapped ==
  /\ \A u \in Users :
       L_user(u) \notin untrimmed =>
         \E full \in BOOLEAN :
           lists[L_user(u)] =
             Take(NewestFirst(userlog, u) \o InitLists(full)[L_user(u)],
                  UserTrimStop + 1)
  /\ \A i \in 1..Len(userlog) :
       [id |-> userlog[i].id, ttl |-> NotificationTTL] \in stored
  /\ \A d \in Deliveries :
       StoreCompleted(d) =>
         Count(userlog, [user |-> d.notif.userId, id |-> d.notif.id]) >= 1

\* C18 witness: storeNotification completed for U1 on a full list: the new id
\* is at the head, the list holds 100 ids and ends with the second oldest of
\* the ids it started with
C18_Witness ==
  \E d \in Deliveries :
    /\ StoreCompleted(d) /\ d.notif.userId = "U1"
    /\ L_user("U1") \notin untrimmed
    /\ Len(lists[L_user("U1")]) = UserTrimStop + 1
    /\ lists[L_user("U1")][1].id = d.notif.id
    /\ lists[L_user("U1")][UserTrimStop + 1] = AgedEntry(UserTrimStop)

\* the effect of the adapter of channel ch for the Notification of d is there
Delivered(d, ch) ==
  CASE ch = "email"     -> emailSubject(d.notif) \in Range(mail)
    [] ch = "push"      -> \E i \in 1..Len(lists[L_push]) :
                             lists[L_push][i].id = d.notif.id
    [] ch = "dashboard" -> d.notif.id \in Range(pubsub)
    [] ch = "slack"     -> \E i \in 1..Len(lists[L_slack]) :
                             lists[L_slack][i].id = d.notif.id
    [] OTHER            -> TRUE

\* C19: when a write of storeNotification failed, nothing is thrown to the
\* consumer, the handler returns, the message is not rejected, and what the
\* adapters called for the Notification delivered stays delivered.
C19_StoreFailureContained ==
  \A d \in Deliveries :
    "store" \in Range(d.raised) =>
      /\ d.err = "none" /\ d.pc = "ret"
      /\ d.settled # "nacked"
      /\ \A ch \in Range(d.calls) \ Range(d.raised) : Delivered(d, ch)

\* C19 witness: a store write failed after the dashboard adapter had published,
\* and the message was acknowledged
C19_Witness ==
  \E d \in Deliveries :
    /\ "store" \in Range(d.raised)
    /\ "dashboard" \in Range(d.calls) /\ Delivered(d, "dashboard")
    /\ d.settled = "acked"

\* C20: when the marker read or the marker write of milestone detection
\* failed, nothing is thrown to the consumer and the analytics message is not
\* rejected (it goes on to be acknowledged).
C20_DedupStoreFailureContained ==
  \A d \in Deliveries :
    "marker" \in Range(d.raised) => d.err = "none" /\ d.settled # "nacked"

\* the side effects of the channel adapters
SideEffects == {"email", "push", "dashboard", "broadcast", "slack"}

\* C21: for every published event, each channel side effect (mail sent, push
\* entry, dashboard entry, dashboard broadcast, slack entry) is performed at
\* most once, over all deliveries of the event.
C21_SideEffectsAtMostOnce ==
  \A d \in Deliveries : \A e \in SideEffects : Count(d.done, e) <= 1

\* C22: once the handler of an inventory.low_stock event has returned, the
\* dashboard and the slack adapter were each called once (whatever failed in
\* between), and the email adapter was called once if the severity is critical
\* and not at all otherwise.
C22_LowStockEmailIffCritical ==
  \A d \in Deliveries :
    (d.msg.rk = K_lowstock /\ d.msg.body.decodable /\ d.pc = "ret") =>
      /\ Count(d.calls, "dashboard") = 1
      /\ Count(d.calls, "slack") = 1
      /\ Count(d.calls, "email") =
           (IF d.msg.body.severity = "critical" THEN 1 ELSE 0)

\* C22 witness: a low-stock event of severity warning was handled and
\* acknowledged without the email adapter, after dashboard and slack
C22_Witness ==
  \E d \in Deliveries :
    /\ d.msg.rk = K_lowstock /\ d.msg.body.severity = "warning"
    /\ d.settled = "acked"
    /\ d.calls = <<"dashboard", "slack">>

\* no collaborator has failed so far in a behaviour of the fan-out pipeline
NoFailureYet == faults = MaxFaults

\* C23: whenever the email adapter was called for a Notification and has
\* returned, and the mail transport did not fail, a message with the subject
\* of the Notification's type was handed to the mail transport.
C23_EmailSentForEveryType ==
  \A d \in Deliveries :
    ("email" \in Range(d.calls) /\ d.pc # "email_send" /\ NoFailureYet) =>
      /\ "email" \in Range(d.done)
      /\ emailSubject(d.notif) \in Range(mail)

\* the routing key matches analytics.updated.*
AnalyticsUpdated(rk) == TopicMatch(<<"analytics", "updated", "*">>, rk)

\* the gateway's copy of message id: waiting in its queue, or consumed
InGateway(id) == Ready(Q_gateway, id) \/ \E i \in 1..Len(gw) : gw[i].id = id

\* the notification service's copy of message id: waiting in its queue,
\* delivered, or expired in the queue
InNotifications(id) ==
  Ready(Q_analytics, id) \/ id \in DOMAIN deliv \/ id \in expired

\* C24: every analytics.updated.* event is in both notifications.analytics and
\* gateway.analytics.updates (and no other analytics event reaches the
\* gateway); the gateway consumes its copy once, and what the notification
\* service does with its copy (ack, reject, dead-letter) leaves the gateway's
\* copy as it is: still waiting, or consumed and acknowledged.
C24_AnalyticsEventOnBothQueues ==
  /\ \A d \in Deliveries :
       (d.q = Q_analytics /\ AnalyticsUpdated(d.msg.rk)) => InGateway(d.msg.id)
  /\ \A i \in 1..Len(queue[Q_analytics]) :
       AnalyticsUpdated(queue[Q_analytics][i].rk) =>
         InGateway(queue[Q_analytics][i].id)
  /\ \A i \in 1..Len(queue[Q_gateway]) :
       /\ AnalyticsUpdated(queue[Q_gateway][i].rk)
       /\ InNotifications(queue[Q_gateway][i].id)
  /\ \A i \in 1..Len(gw) :
       /\ AnalyticsUpdated(gw[i].rk) /\ InNotifications(gw[i].id)
       /\ ~Ready(Q_gateway, gw[i].id)
       /\ \A j \in 1..Len(gw) : gw[j].id = gw[i].id => j = i
  /\ \A d \in Deliveries : \A i \in 1..Len(gw) :
       (gw[i].id = d.msg.id /\ d.msg.body.decodable) => gw[i].settled = "acked"

\* C24 witness: the notification service rejected an analytics.updated.orders
\* event and the gateway consumed and acknowledged its own copy
C24_Witness ==
  \E d \in Deliveries : \E i \in 1..Len(gw) :
    /\ d.msg.rk = K_aorders /\ d.settled = "nacked"
    /\ gw[i].id = d.msg.id /\ gw[i].settled = "acked" /\ gw[i].room = "orders"

\* connectRabbitMQ and setupQueues have completed
Declared == Range(connectCalls) \cup Range(setupCalls) \subseteq CompletedCalls

\* C25: a consumer is started, and a message consumed, only when the
\* connection is made and every declaration of setupQueues has completed
\* (the dead-letter exchange, notifications.failed and its binding included);
\* when a call of connectRabbitMQ or setupQueues has failed, the process has
\* exited with no consumer started and no message consumed.
C25_DeclareBeforeConsume ==
  /\ \A q \in ConsumerQueues :
       Call("consume", q) \in CompletedCalls => Declared
  /\ deliv # <<>> => Declared
  /\ (svc.state = "exited" /\ ~Declared) =>
       /\ deliv = <<>>
       /\ \A q \in ConsumerQueues : Call("consume", q) \notin CompletedCalls
  /\ svc.state = "exited" => \A q \in ConsumerQueues : ~Consuming(q)

\* C25 witness: initialize() ran to its end and a waiting message was then
\* consumed and acknowledged
C25_Witness ==
  /\ svc.state = "running" /\ Declared
  /\ Call("bindQueue", Q_failed) \in CompletedCalls
  /\ \E d \in Deliveries : d.settled = "acked"

\* C26: the achieved events one evaluation publishes are for thresholds at or
\* below its metric value and come in ascending threshold order; once it has
\* returned, every threshold at or below the value has its event, from this
\* evaluation unless an earlier one had marked it; no marker is set and no
\* event published for a threshold above every value evaluated.
C26_LadderWalkedAscending ==
  /\ \A i \in 1..Len(published) :
       /\ published[i].milestone <= published[i].currentRevenue
       /\ published[i].currentRevenue = deliv[published[i].by].rev
       /\ \A j \in 1..Len(published) :
            (i < j /\ published[i].by = published[j].by) =>
              published[i].milestone < published[j].milestone
  /\ \A k \in markers : Reaching(k.m) # {}
  /\ \A t \in DOMAIN deliv : \A m \in Range(milestones) :
       (deliv[t].pc = "ret" /\ deliv[t].rev >= m) =>
         /\ MarkerSet(markers, m)
         /\ \E i \in EventsFor(m) : published[i].by <= t

\* C26 witness: one evaluation at 6000 published 1000 and then 5000, marked
\* exactly these two thresholds, and was acknowledged
C26_Witness ==
  \E t \in DOMAIN deliv :
    /\ deliv[t].rev = 6000 /\ deliv[t].settled = "acked"
    /\ Len(published) = 2
    /\ published[1].milestone = 1000 /\ published[1].by = t
    /\ published[2].milestone = 5000 /\ published[2].by = t
    /\ { k.m : k \in markers } = {1000, 5000}

\* C27: every step in which a trim of a capped list completes leaves the list
\* at or below its cap, however far earlier pushes without a trim (a failed
\* trim, a process stopped between push and trim) had taken it over the cap.
C27_NextTrimRestoresCap ==
  [][ \A k \in CappedLists :
        (k \in untrimmed /\ k \notin untrimmed') => Len(lists'[k]) <= Cap(k) ]_vars

\* C27 witness: the trim of one handler failed on the full dashboard list, and
\* a later append and trim has brought the list back to its cap
C27_Witness ==
  /\ \E d \in Deliveries : L_dash \in Range(d.skipped)
  /\ L_dash \notin untrimmed
  /\ Len(lists[L_dash]) = Cap(L_dash)

\* C28: at most one settlement (ack or nack) is sent for a delivery, never an
\* ack and a nack; a delivery whose callback has ended has exactly one, the
\* nack being without requeue; this also when channel.ack itself threw.
C28_SettledExactlyOnce ==
  \A d \in Deliveries :
    /\ Len(d.settles) <= 1
    /\ d.settled = "acked"  => d.settles = <<"ack">>
    /\ d.settled = "nacked" => d.settles = <<"nack">> /\ ~Ready(d.q, d.msg.id)
    /\ d.settles # <<>> => ~Unsettled(d)
    /\ d.err = "ack" => d.settled # "acked"

\* C28 witness: channel.ack threw for a message whose handler had returned,
\* and the message was then rejected, once
C28_Witness ==
  \E d \in Deliveries :
    d.err = "ack" /\ d.settled = "nacked" /\ d.settles = <<"nack">>

\* the handlers between their LPUSH on list k and their LTRIM of it
BetweenPushAndTrim(k) ==
  { t \in DOMAIN deliv :
      \/ k = L_push /\ deliv[t].pc = "push_ltrim"
      \/ k = L_dash /\ deliv[t].pc = "dash_ltrim" }

\* C29: a bounded list is never longer than its cap plus the number of
\* handlers that have pushed on it and not yet trimmed it, and so never
\* longer than its cap plus the prefetch count of 5.
C29_OverCapBoundedByPrefetch ==
  \A k \in {L_push, L_dash} :
    /\ Len(lists[k]) <= Cap(k) + Cardinality(BetweenPushAndTrim(k))
    /\ Len(lists[k]) <= Cap(k) + PREFETCH

\* an evaluation that wrote the marker of its threshold and did not publish:
\* channel.publish threw, or the process stopped while suspended on it
PublishFailed(d) == "publish" \in Range(d.raised)
StoppedBeforePublish(d) == d.lostAt = "ms_publish"

\* C30: every achieved event published has its marker written; when the
\* publish failed, or the process stopped between the marker write and the
\* publish, the marker is set, no event is published for the threshold, by
\* this or any later evaluation, and the message is dead-lettered: never
\* acknowledged, not put back in its queue.
C30_MarkerWrittenBeforePublish ==
  /\ \A i \in 1..Len(published) :
       \E k \in markers : k.m = published[i].milestone /\ k.at <= published[i].at
  /\ \A d \in Deliveries :
       PublishFailed(d) =>
         /\ MarkerSet(markers, milestones[d.mi])
         /\ EventsFor(milestones[d.mi]) = {}
         /\ d.settled \notin {"acked", "requeued"}
         /\ ~Unsettled(d) => ~Ready(d.q, d.msg.id)
  /\ \A d \in Deliveries :
       StoppedBeforePublish(d) =>
         /\ MarkerSet(markers, milestones[d.lostMi])
         /\ EventsFor(milestones[d.lostMi]) = {}
         /\ d.settled \notin {"acked", "requeued"}
         /\ ~Unsettled(d) => ~Ready(d.q, d.msg.id)

\* C30 as amended: every achieved event published has its marker written.
\* When the publish failed, the marker is set, no event is published for the
\* threshold, and the message is never acknowledged and, once rejected, not
\* put back in its queue.  When the process stopped between the marker write
\* and the publish, the marker is set, the message is back in its queue until
\* it is delivered again, and no event is published for the threshold, by the
\* evaluation of the redelivered message or any later one.
C30_MarkerStaysNoEventPublished ==
  /\ \A i \in 1..Len(published) :
       \E k \in markers : k.m = published[i].milestone /\ k.at <= published[i].at
  /\ \A d \in Deliveries :
       PublishFailed(d) =>
         /\ MarkerSet(markers, milestones[d.mi])
         /\ EventsFor(milestones[d.mi]) = {}
         /\ d.settled # "acked"
         /\ d.settled = "nacked" => ~Ready(d.q, d.msg.id)
  /\ \A d \in Deliveries :
       StoppedBeforePublish(d) =>
         /\ MarkerSet(markers, milestones[d.lostMi])
         /\ EventsFor(milestones[d.lostMi]) = {}
         /\ d.pc = "lost" => d.settled = "requeued" /\ Ready(d.q, d.msg.id)

\* C30 witness: the process stopped between the marker write and the publish,
\* the message was delivered again, its evaluation reached the threshold and
\* returned, and no event is published for the threshold
C30_Witness ==
  \E d \in Deliveries :
    /\ StoppedBeforePublish(d)
    /\ d.settled = "acked"
    /\ d.rev >= milestones[d.lostMi]
    /\ EventsFor(milestones[d.lostMi]) = {}

\* C31: a decodable message delivered to notifications.analytics, none of
\* whose Redis and broker calls failed, is not rejected: its handler does not
\* throw and the message is not dead-lettered.
C31_AnalyticsMessagesAcknowledged ==
  \A d \in Deliveries :
    (d.q = Q_analytics /\ d.msg.body.decodable /\ d.raised = <<>>) =>
      /\ d.err = "none"
      /\ d.settled # "nacked"

\* the deliveries whose notification was broadcast on dashboard_updates
Broadcast == { t \in DOMAIN deliv : "publish" \in Range(deliv[t].dash) }

\* C32: a notification is broadcast on dashboard_updates only after its
\* LPUSH, LTRIM and EXPIRE on dashboard_notifications resolved, in this order;
\* when one of them rejected no broadcast is made for it, so dashboard_updates
\* carries exactly the notifications whose three list operations resolved.
C32_BroadcastAfterListOperations ==
  /\ \A d \in Deliveries :
       /\ "publish" \in Range(d.dash) =>
            /\ d.dash = <<"lpush", "ltrim", "expire", "publish">>
            /\ d.notif.id \in Range(pubsub)
            /\ \E x \in expiring : x.key = L_dash /\ x.ttl = DashTTL
       /\ ("dashboard" \in Range(d.raised) /\ Len(d.dash) < 3) =>
            "publish" \notin Range(d.dash)
  /\ Len(pubsub) = Cardinality(Broadcast)

\* C32 witness: the LTRIM of a notification's dashboard entry rejected, its
\* handler has returned, and nothing was broadcast for it
C32_Witness ==
  \E d \in Deliveries :
    /\ d.dash = <<"lpush">>
    /\ "dashboard" \in Range(d.raised)
    /\ d.settled = "acked"
    /\ d.notif.id \notin Range(pubsub)

\* C33: no two users of the in-memory user list have the same email address,
\* also when registration requests for one new address are handled together.
C33_RegisteredEmailsUnique ==
  \A i, j \in 1..Len(sampleUsers) :
    i # j => sampleUsers[i].email # sampleUsers[j].email

====
